---- MODULE Spec2Model ----
(***************************************************************************)
(* TLS certificate monitoring (src/main.py).                               *)
(*                                                                         *)
(* Python values are represented as follows.                               *)
(*   str        a sequence of one-character strings (domain strings) or a  *)
(*              sequence of message tokens (exception texts)               *)
(*   Optional   None is the empty tuple, a present value x is <<x>>        *)
(*   datetime   an integer instant counted in half days                    *)
(*   list       a sequence                                                 *)
(***************************************************************************)
EXTENDS Integers, Sequences, FiniteSets, TLC

VARIABLES
    pc,             \* position of main(): start, validate, parse, loop, the
                    \* positions inside get_certificate_expiry, emit, done, crashed
    github_output,  \* what os.getenv("GITHUB_OUTPUT") returned at line 331
                    \* (Optional of an Optional str: None until it is read)
    config,         \* the dict returned by load_config (Optional)
    domains,        \* list returned by parse_domains
    results,        \* results list of main()
    log,            \* per domain, the network/decoder operations performed
    alerts,         \* alerts list of main() (Optional: None until computed)
    alert_data,     \* alert_data dict of main() (Optional)
    sink,           \* lines appended to the GITHUB_OUTPUT file
    ret,            \* return value of main() (Optional)
    raised,         \* exception that left main() (Optional)
    call            \* a single call of a pure function: [fn, args, ret]

vars == <<pc, github_output, config, domains, results, log, alerts,
          alert_data, sink, ret, raised, call>>

mainVars == <<pc, github_output, config, domains, results, log, alerts,
              alert_data, sink, ret, raised>>

----------------------------------------------------------------------------
(* Bounds of the model *)

\* longest domain specification string given to a run of main()
MaxSpecLen == 3
\* longest string given to parse_domains on its own
MaxStrLen == 4
\* latest reading of datetime.now(), in half days (the wall clock is read
\* anew each time and need not be monotonic)
MaxNow == 1
\* largest days_remaining / threshold given to check_threshold on its own
MaxDays == 31

----------------------------------------------------------------------------
(* Optional values *)

None == << >>
Some(x) == <<x>>
IsNone(o) == Len(o) = 0
Get(o) == o[1]

----------------------------------------------------------------------------
(* Strings: str.split, str.strip *)

Chars == {"a", "b", ",", ":", " "}
RunChars == {"a", "b", ","}

\* The characters of the model are ASCII.  The control characters that have
\* no escape are written as themselves: vertical tab (0x0b) and the file,
\* group, record and unit separators (0x1c to 0x1f).
VerticalTab == ""
Separators == {"", "", "", ""}

\* the characters str.strip() removes
Whitespace == {" ", "\t", "\n", "\r", "\f", VerticalTab} \cup Separators

\* the characters int() skips around a literal
IntWhitespace == {" ", "\t", "\n", "\r", "\f", VerticalTab}

RECURSIVE StrsUpTo(_, _)
StrsUpTo(alphabet, n) ==
    IF n = 0 THEN {<< >>}
    ELSE LET shorter == StrsUpTo(alphabet, n - 1)
         IN  shorter \cup {Append(s, c) : s \in {t \in shorter : Len(t) = n - 1},
                                          c \in alphabet}

\* index of the first occurrence of sep in s, 0 if there is none
RECURSIVE FindFrom(_, _, _)
FindFrom(s, sep, i) ==
    IF i > Len(s) THEN 0
    ELSE IF s[i] = sep THEN i
    ELSE FindFrom(s, sep, i + 1)

\* s.split(sep) for a one-character separator
RECURSIVE Split(_, _)
Split(s, sep) ==
    LET k == FindFrom(s, sep, 1)
    IN  IF k = 0 THEN <<s>>
        ELSE <<SubSeq(s, 1, k - 1)>> \o Split(SubSeq(s, k + 1, Len(s)), sep)

RECURSIVE LStrip(_)
LStrip(s) ==
    IF s # << >> /\ Head(s) \in Whitespace THEN LStrip(Tail(s)) ELSE s

RECURSIVE RStrip(_)
RStrip(s) ==
    IF s # << >> /\ s[Len(s)] \in Whitespace
    THEN RStrip(SubSeq(s, 1, Len(s) - 1)) ELSE s

\* s.strip()
Strip(s) == RStrip(LStrip(s))

\* bool(s) of a str
Truthy(s) == s # << >>

----------------------------------------------------------------------------
(* parse_domains *)

RECURSIVE StripNonBlank(_)
StripNonBlank(items) ==
    IF items = << >> THEN << >>
    ELSE IF Truthy(Strip(Head(items)))
         THEN <<Strip(Head(items))>> \o StripNonBlank(Tail(items))
         ELSE StripNonBlank(Tail(items))

\* faulty variant: the `if d.strip()` filter is lost
StripAll(items) == [i \in 1..Len(items) |-> Strip(items[i])]

\* [d.strip() for d in items if d.strip()]
StrippedItems(items) == StripNonBlank(items)

parse_domains(domains_str) == StrippedItems(Split(domains_str, ","))

\* Python values as seen by a caller of a pure function
PyStr(s) == [type |-> "str", val |-> s]
PyList(xs) == [type |-> "list", val |-> xs]

----------------------------------------------------------------------------
(* Exceptions and their texts.  A text is a sequence of tokens; the test   *)
(* `"X" in str(e)` asks whether X is one of them.                          *)

Exc(cls, msg) == [cls |-> cls, msg |-> msg]

\* isinstance(e, ssl.SSLError)
IsSSLError(e) == e.cls \in {"SSLError", "SSLCertVerificationError"}

\* str(e)
Str(e) == e.msg

\* token in text
Contains(text, token) == \E i \in 1..Len(text) : text[i] = token

VerifyFailures ==
    { Exc("SSLCertVerificationError",
          <<"[SSL:", "CERTIFICATE_VERIFY_FAILED", "]", "certificate verify failed:", why>>) :
        why \in {"unable to get local issuer certificate",
                 "Hostname mismatch"} }

ConnectFailures ==
    { Exc("gaierror", <<"[Errno -2]", "Name or service not known">>),
      Exc("ConnectionRefusedError", <<"[Errno 111]", "Connection refused">>),
      Exc("timeout", <<"timed out">>),
      Exc("SSLError", <<"[SSL:", "WRONG_VERSION_NUMBER", "]", "wrong version number">>) }

\* what lines 74-78 can raise
StrictFailures == VerifyFailures \cup ConnectFailures

\* what lines 111-116 can raise
RelaxedFailures ==
    { Exc("timeout", <<"timed out">>),
      Exc("SSLError", <<"[SSL:", "SSLV3_ALERT_HANDSHAKE_FAILURE", "]", "handshake failure">>) }

\* what subprocess.run can raise (lines 134-140)
DecoderFailures ==
    { Exc("TimeoutExpired", <<"Command", "openssl", "timed out after", "5", "seconds">>),
      Exc("FileNotFoundError", <<"[Errno 2]", "No such file or directory:", "openssl">>) }

----------------------------------------------------------------------------
(* Dates.  A date text is described by whether it has the fields           *)
(* "Mon day HH:MM:SS year TZ", by the number of blanks between month and   *)
(* day, and by the instant it denotes.                                     *)

ExpiryInstants == {-1, 0, 13, 14}

DateText(wf, pad, t) == [wellformed |-> wf, pad |-> pad, instant |-> t]

Garbage == DateText(FALSE, 1, 0)

WellFormedTexts == {DateText(TRUE, pad, t) : pad \in {1, 2}, t \in ExpiryInstants}

\* the formats of lines 86 and 146: blanks between %b and %d
VerifiedFormatPad == 1
DecoderFormatPad == 2

\* datetime.strptime(text, format): a run of blanks in the format matches
\* one or more blanks of the text
strptime(text, formatPad) ==
    IF text.wellformed /\ formatPad >= 1 /\ text.pad >= 1
    THEN [raises |-> FALSE, value |-> text.instant]
    ELSE [raises |-> TRUE,
          value |-> Exc("ValueError", <<"time data", "does not match format">>)]

\* faulty variant: a run of blanks in the format matches exactly as many blanks
strptimeExact(text, formatPad) ==
    IF text.wellformed /\ text.pad = formatPad
    THEN [raises |-> FALSE, value |-> text.instant]
    ELSE [raises |-> TRUE,
          value |-> Exc("ValueError", <<"time data", "does not match format">>)]

\* (expires_at - datetime.now()).days: timedelta.days rounds towards minus
\* infinity
FloorDiv(a, b) == IF a >= 0 THEN a \div b ELSE -((-a + b - 1) \div b)

\* instants are counted in half days, so a day is 2 of them
DaysRemaining(expires_at, t) == FloorDiv(expires_at - t, 2)

\* faulty variant: the CRITICAL tier reaches up to and including 7 days
StatusInclusive(days_remaining) ==
    IF days_remaining < 0 THEN "EXPIRED"
    ELSE IF days_remaining <= 7 THEN "CRITICAL"
    ELSE "OK"

\* lines 91-96
VerifiedStatus(days_remaining) ==
    IF days_remaining < 0 THEN "EXPIRED"
    ELSE IF days_remaining < 7 THEN "CRITICAL"
    ELSE "OK"

\* lines 150-155
DecodedStatus(days_remaining) ==
    IF days_remaining < 0 THEN "EXPIRED"
    ELSE IF days_remaining < 7 THEN "CRITICAL"
    ELSE "OK"

----------------------------------------------------------------------------
(* Results of get_certificate_expiry *)

\* lines 98-104 and 157-163
OkResult(domain, expires_at, days_remaining, status) ==
    [domain |-> domain, expires_at |-> Some(expires_at),
     days_remaining |-> Some(days_remaining), status |-> status, error |-> None]

\* faulty variant: a decode failure keeps a stale day count
StaleErrorResult(domain, text) ==
    [domain |-> domain, expires_at |-> None, days_remaining |-> Some(0),
     status |-> "ERROR", error |-> Some(text)]

\* lines 122-128, 165-171, 173-179, 181-187, 189-195, 198-204
ErrorResult(domain, text) ==
    [domain |-> domain, expires_at |-> None, days_remaining |-> None,
     status |-> "ERROR", error |-> Some(text)]

\* faulty variant: the comparison with the threshold is not strict
check_threshold_inclusive(cert_info, threshold_days) ==
    IF cert_info.status = "ERROR" THEN TRUE
    ELSE IF IsNone(cert_info.days_remaining) THEN TRUE
    ELSE IF Get(cert_info.days_remaining) <= threshold_days THEN TRUE
    ELSE FALSE

\* lines 207-221
check_threshold(cert_info, threshold_days) ==
    IF cert_info.status = "ERROR" THEN TRUE
    ELSE IF IsNone(cert_info.days_remaining) THEN TRUE
    ELSE IF Get(cert_info.days_remaining) < threshold_days THEN TRUE
    ELSE FALSE

RECURSIVE Filter(_, _)
Filter(rs, threshold_days) ==
    IF rs = << >> THEN << >>
    ELSE IF check_threshold(Head(rs), threshold_days)
         THEN <<Head(rs)>> \o Filter(Tail(rs), threshold_days)
         ELSE Filter(Tail(rs), threshold_days)

\* faulty variant: the alerting results are collected in reverse order
RECURSIVE FilterReversed(_, _)
FilterReversed(rs, threshold_days) ==
    IF rs = << >> THEN << >>
    ELSE IF check_threshold(Head(rs), threshold_days)
         THEN FilterReversed(Tail(rs), threshold_days) \o <<Head(rs)>>
         ELSE FilterReversed(Tail(rs), threshold_days)

\* line 310: [r for r in results if check_threshold(r, threshold_days)]
AlertingResults(rs, threshold_days) == Filter(rs, threshold_days)

\* datetime.isoformat()
IsoFormat(t) == [iso |-> t]

\* lines 333-339: the objects of the JSON array
AlertObject(alert) ==
    [domain |-> alert.domain,
     status |-> alert.status,
     days_remaining |-> alert.days_remaining,
     expires_at |-> IF ~IsNone(alert.expires_at)
                    THEN Some(IsoFormat(Get(alert.expires_at))) ELSE None,
     error |-> alert.error]

AlertsJson(as) == [i \in 1..Len(as) |-> AlertObject(as[i])]

----------------------------------------------------------------------------
(* load_config and validate_config *)

Digits == {"0", "1", "2", "3", "4", "5", "6", "7", "8", "9"}

DigitVal(c) ==
    CASE c = "0" -> 0 [] c = "1" -> 1 [] c = "2" -> 2 [] c = "3" -> 3
      [] c = "4" -> 4 [] c = "5" -> 5 [] c = "6" -> 6 [] c = "7" -> 7
      [] c = "8" -> 8 [] c = "9" -> 9

RECURSIVE DecimalValue(_)
DecimalValue(s) ==
    IF s = << >> THEN 0
    ELSE 10 * DecimalValue(SubSeq(s, 1, Len(s) - 1)) + DigitVal(s[Len(s)])

IsDigit(c) == c \in Digits

\* the digits of an int literal: digits, with single underscores between them
DigitGroups(body) ==
    /\ body # << >>
    /\ \A i \in 1..Len(body) : body[i] \in Digits \cup {"_"}
    /\ body[1] # "_" /\ body[Len(body)] # "_"
    /\ \A i \in 1..(Len(body) - 1) : ~(body[i] = "_" /\ body[i + 1] = "_")

\* s without the whitespace int() skips at both ends
IntStrip(s) ==
    LET kept == {i \in 1..Len(s) : s[i] \notin IntWhitespace}
    IN  IF kept = {} THEN << >>
        ELSE SubSeq(s, CHOOSE i \in kept : \A j \in kept : i <= j,
                       CHOOSE i \in kept : \A j \in kept : j <= i)

\* int(s) for a str s: surrounding whitespace is dropped, then an optional
\* sign and the digits are read; anything else raises ValueError
int(s) ==
    LET text == IntStrip(s)
        signed == text # << >> /\ text[1] \in {"+", "-"}
        body == IF signed THEN Tail(text) ELSE text
        magnitude == DecimalValue(SelectSeq(body, IsDigit))
    IN  IF DigitGroups(body)
        THEN [raises |-> FALSE,
              value |-> IF signed /\ text[1] = "-" THEN 0 - magnitude
                        ELSE magnitude]
        ELSE [raises |-> TRUE,
              value |-> Exc("ValueError", <<"invalid literal for int() with base 10">>)]

EnvKeys == {"MONITOR_DOMAINS", "CERT_EXPIRATION_THRESHOLD_DAYS", "DEBUG"}

\* load_dotenv(override=False): a key of the file is set only when the
\* environment does not have it
load_dotenv(environ, file) ==
    [k \in EnvKeys |-> IF IsNone(environ[k]) THEN file[k] ELSE environ[k]]

\* os.getenv(key, default)
getenv(environ, key, default) ==
    IF IsNone(environ[key]) THEN default ELSE Get(environ[key])

UpperLetters ==
    <<"A", "B", "C", "D", "E", "F", "G", "H", "I", "J", "K", "L", "M",
      "N", "O", "P", "Q", "R", "S", "T", "U", "V", "W", "X", "Y", "Z">>

LowerLetters ==
    <<"a", "b", "c", "d", "e", "f", "g", "h", "i", "j", "k", "l", "m",
      "n", "o", "p", "q", "r", "s", "t", "u", "v", "w", "x", "y", "z">>

LowerChar(c) ==
    IF \E i \in 1..Len(UpperLetters) : UpperLetters[i] = c
    THEN LowerLetters[CHOOSE i \in 1..Len(UpperLetters) : UpperLetters[i] = c]
    ELSE c

\* str.lower(): every character is lowered
Lower(s) == [i \in 1..Len(s) |-> LowerChar(s[i])]

DefaultThreshold == <<"3", "0">>

\* lines 22-43.  domains and threshold are the Optional arguments.
load_config(argDomains, argThreshold, osEnviron, dotenvFile) ==
    LET environ == load_dotenv(osEnviron, dotenvFile)
        domains_str ==
            IF ~IsNone(argDomains) /\ Truthy(Get(argDomains))
            THEN Get(argDomains)
            ELSE getenv(environ, "MONITOR_DOMAINS", << >>)
        parsed == int(getenv(environ, "CERT_EXPIRATION_THRESHOLD_DAYS",
                             DefaultThreshold))
        fromArg == ~IsNone(argThreshold) /\ Get(argThreshold) # 0
        debug == Lower(getenv(environ, "DEBUG", <<"f", "a", "l", "s", "e">>))
                     = <<"t", "r", "u", "e">>
    IN  IF ~fromArg /\ parsed.raises
        THEN [raises |-> TRUE, value |-> parsed.value]
        ELSE [raises |-> FALSE,
              value |-> [domains_str |-> domains_str,
                         threshold_days |-> IF fromArg THEN Get(argThreshold)
                                            ELSE parsed.value,
                         debug |-> debug]]

\* faulty variant: the check is skipped
validate_config_skipped(cfg) == [raises |-> FALSE, value |-> None]

\* faulty variant: a specification without any domain is refused as well
validate_config_no_domain(cfg) ==
    IF ~Truthy(cfg.domains_str) \/ parse_domains(cfg.domains_str) = << >>
    THEN [raises |-> TRUE,
          value |-> Exc("RuntimeError", <<"Missing", "MONITOR_DOMAINS">>)]
    ELSE [raises |-> FALSE, value |-> None]

\* lines 46-49
validate_config(cfg) ==
    IF ~Truthy(cfg.domains_str)
    THEN [raises |-> TRUE,
          value |-> Exc("RuntimeError", <<"Missing", "MONITOR_DOMAINS">>)]
    ELSE [raises |-> FALSE, value |-> None]

----------------------------------------------------------------------------
(* Main-run variables at rest, for the specifications of single calls *)

MainIdle ==
    /\ pc = "idle"
    /\ github_output = None
    /\ config = None
    /\ domains = << >>
    /\ results = << >>
    /\ log = << >>
    /\ alerts = None
    /\ alert_data = None
    /\ sink = << >>
    /\ ret = None
    /\ raised = None

NoCall == [fn |-> "none", args |-> << >>, ret |-> None]

----------------------------------------------------------------------------
(* Specification of single calls of parse_domains *)

\* specifications with the other whitespace characters
ControlSpecs ==
    {<<VerticalTab, "a">>, <<" ", VerticalTab, " ", ",", "a">>,
     <<"\t", "a", "\n", ",", "\f", "\r">>}
        \cup {<<c, "a", c>> : c \in Separators}

InitParse ==
    /\ MainIdle
    /\ \E s \in StrsUpTo(Chars, MaxStrLen) \cup ControlSpecs :
          call = [fn |-> "parse_domains", args |-> <<s>>, ret |-> None]

CallParseDomains ==
    /\ call.fn = "parse_domains"
    /\ IsNone(call.ret)
    /\ LET out == parse_domains(call.args[1])
       IN  call' = [call EXCEPT !.ret =
                       Some(PyList([i \in 1..Len(out) |-> PyStr(out[i])]))]
    /\ UNCHANGED mainVars

NextParse == CallParseDomains

SpecParse == InitParse /\ [][NextParse]_vars

----------------------------------------------------------------------------
(* Inputs of a run of main() *)

\* a specification of blanks and a comma
BlankSpec == <<" ", ",", " ">>

ArgDomainVals ==
    {None, Some(BlankSpec), Some(<<VerticalTab, "a">>)}
        \cup {Some(s) : s \in StrsUpTo(RunChars, MaxSpecLen)}

ArgThresholdVals == {None, Some(0), Some(1), Some(7)}

RunEnvirons ==
    [MONITOR_DOMAINS : {None, Some(<<"b">>)},
     CERT_EXPIRATION_THRESHOLD_DAYS : {None, Some(<<"7">>), Some(<<"x">>)},
     DEBUG : {None}]

RunDotenvs ==
    [MONITOR_DOMAINS : {None, Some(<<"a">>)},
     CERT_EXPIRATION_THRESHOLD_DAYS : {None, Some(<<"1">>)},
     DEBUG : {None}]

GithubOutputVals == {None, Some(<< >>), Some(<<"o">>)}

\* what open(path, "a") does: it returns the file, or raises when the
\* directory does not exist or the path is a directory
OpenOutcomes(path) ==
    {None,
     Some(Exc("FileNotFoundError",
              <<"[Errno 2]", "No such file or directory:">> \o path)),
     Some(Exc("IsADirectoryError", <<"[Errno 21]", "Is a directory:">> \o path))}

\* runs with the environment only: a threshold with blanks or a sign, DEBUG
EnvThresholdVals ==
    {None, Some(<<" ", "7", " ">>), Some(<<"-", "7">>), Some(<<"+", "7">>),
     Some(<<"0">>), Some(<<"7", VerticalTab>>)}

EnvDebugVals == {None, Some(<<"t", "R", "u", "E">>), Some(<<"F", "A", "L", "S", "E">>)}

EnvInvocations ==
    {<<Some(<<"a">>), argThreshold,
       [MONITOR_DOMAINS |-> None, CERT_EXPIRATION_THRESHOLD_DAYS |-> t,
        DEBUG |-> d],
       [MONITOR_DOMAINS |-> None, CERT_EXPIRATION_THRESHOLD_DAYS |-> None,
        DEBUG |-> None]>> :
        argThreshold \in {None, Some(7)}, t \in EnvThresholdVals,
        d \in EnvDebugVals}

\* the command lines and environments of the runs
RunInvocations ==
    (ArgDomainVals \X ArgThresholdVals \X RunEnvirons \X RunDotenvs)
        \cup EnvInvocations

\* the dict returned by ssock.getpeercert() of a verified session, reduced
\* to its notAfter entry
PeerCerts ==
    {[notAfter |-> None], [notAfter |-> Some(Garbage)]}
        \cup {[notAfter |-> Some(d)] : d \in WellFormedTexts}

\* the decoder's standard output, as tokens: text chunks and "=" signs
Chunk(d) == [eq |-> FALSE, text |-> d]
EqSign == [eq |-> TRUE, text |-> Garbage]

DecoderStdouts ==
    {<<Chunk(Garbage)>>, <<Chunk(Garbage), EqSign>>}
        \cup {<<Chunk(Garbage), EqSign, Chunk(d)>> : d \in WellFormedTexts \cup {Garbage}}

DecoderStderrs == {<<"unable to load certificate">>}

\* the text of one part of stdout.split('=')
PartText(part) == IF Len(part) = 1 THEN part[1].text ELSE Garbage

----------------------------------------------------------------------------
(* main() *)

Init ==
    /\ pc = "start"
    /\ github_output = None
    /\ config = None
    /\ domains = << >>
    /\ results = << >>
    /\ log = << >>
    /\ alerts = None
    /\ alert_data = None
    /\ sink = << >>
    /\ ret = None
    /\ raised = None
    /\ call = NoCall

\* line 281, for given sets of arguments, environments and .env files
LoadConfigFrom(invocations) ==
    /\ pc = "start"
    /\ \E invocation \in invocations :
          LET r == load_config(invocation[1], invocation[2], invocation[3],
                               invocation[4])
          IN  IF r.raises
              THEN /\ pc' = "crashed"
                   /\ raised' = Some(r.value)
                   /\ config' = config
              ELSE /\ pc' = "validate"
                   /\ config' = Some(r.value)
                   /\ raised' = raised
    /\ UNCHANGED <<github_output, domains, results, log, alerts,
                   alert_data, sink, ret, call>>

\* line 281
LoadConfig == LoadConfigFrom(RunInvocations)

\* line 281, in the runs started with `-t 7`
LoadConfigThreshold7 ==
    LoadConfigFrom({invocation \in RunInvocations : invocation[2] = Some(7)})

\* line 282
ValidateConfig ==
    /\ pc = "validate"
    /\ LET r == validate_config(Get(config))
       IN  IF r.raises
           THEN /\ pc' = "crashed"
                /\ raised' = Some(r.value)
           ELSE /\ pc' = "parse"
                /\ raised' = raised
    /\ UNCHANGED <<github_output, config, domains, results, log, alerts,
                   alert_data, sink, ret, call>>

\* lines 284-292
ParseDomains ==
    /\ pc = "parse"
    /\ domains' = parse_domains(Get(config).domains_str)
    /\ results' = << >>
    /\ pc' = "loop"
    /\ UNCHANGED <<github_output, config, log, alerts, alert_data, sink,
                   ret, raised, call>>

\* the domain being checked: the loop of line 293 has appended one result
\* for each domain before it
CurrentDomain == domains[Len(results) + 1]

\* faulty variant: the loop stops after the first domain
CheckingFirstOnly == Len(results) < Len(domains) /\ Len(results) < 1

Checking == Len(results) < Len(domains)

\* one entry of log: an operation and the exception it raised, if any.
\* The operations are "strict" and "relaxed" (the handshakes), "extract"
\* (a failed extraction in the verified session), "raw_cert"/"empty_cert"
\* (what getpeercert(True) returned), "decoder" (subprocess.run),
\* "exit_zero"/"exit_nonzero" (its return code) and "parse" (lines 144-146).
Op(op, exc) == [op |-> op, exc |-> exc]

AppendOp(l, entry) == [l EXCEPT ![Len(l)] = Append(@, entry)]

\* faulty variant: any SSLError starts the fallback
StrictHandlerAnySSL(e) ==
    IF IsSSLError(e) THEN "fallback" ELSE "error"

\* faulty variant: a ValueError starts the fallback as well
StrictHandlerValueError(e) ==
    IF IsSSLError(e) /\ Contains(Str(e), "CERTIFICATE_VERIFY_FAILED")
    THEN "fallback"
    ELSE IF e.cls = "ValueError" THEN "fallback" ELSE "error"

\* the except clauses of lines 106-109, 188 and 197 for an exception raised
\* in lines 74-104
StrictHandler(e) ==
    IF IsSSLError(e)
    THEN IF Contains(Str(e), "CERTIFICATE_VERIFY_FAILED")
         THEN "fallback" ELSE "error"
    ELSE "error"

\* get_certificate_expiry returns cert_info; main appends it (lines 295-296)
Return(cert_info) ==
    /\ results' = Append(results, cert_info)
    /\ pc' = "loop"
    /\ raised' = raised

\* get_certificate_expiry goes on to another position
Continue(position) ==
    /\ pc' = position
    /\ results' = results
    /\ raised' = raised

\* faulty variant: the clause `except Exception` of line 197 is missing
RaiseInStrictUncaught(e) ==
    IF StrictHandler(e) = "fallback"
    THEN Continue("relaxed")
    ELSE IF IsSSLError(e)
         THEN Return(ErrorResult(CurrentDomain, Str(e)))
         ELSE /\ pc' = "crashed"
              /\ raised' = Some(e)
              /\ results' = results

\* an exception raised in lines 74-104 reaches the handlers
RaiseInStrict(e) ==
    IF StrictHandler(e) = "fallback"
    THEN Continue("relaxed")
    ELSE Return(ErrorResult(CurrentDomain, Str(e)))

\* lines 293-295, 73-78: the strict handshake
StrictHandshake ==
    /\ pc = "loop"
    /\ Checking
    /\ \/ /\ Continue("verified")
          /\ log' = Append(log, <<Op("strict", None)>>)
       \/ \E e \in StrictFailures :
             /\ RaiseInStrict(e)
             /\ log' = Append(log, <<Op("strict", Some(e))>>)
    /\ UNCHANGED <<github_output, config, domains, alerts, alert_data,
                   sink, ret, call>>

\* lines 79-104: the verified session
ExtractVerified ==
    /\ pc = "verified"
    /\ \E cert \in PeerCerts :
          IF IsNone(cert.notAfter)
          THEN LET e == Exc("ValueError", <<"Certificate missing notAfter field">>)
               IN  /\ RaiseInStrict(e)
                   /\ log' = AppendOp(log, Op("extract", Some(e)))
          ELSE LET p == strptime(Get(cert.notAfter), VerifiedFormatPad)
               IN  IF p.raises
                   THEN /\ RaiseInStrict(p.value)
                        /\ log' = AppendOp(log, Op("extract", Some(p.value)))
                   ELSE \E t \in 0..MaxNow :
                           LET days_remaining == DaysRemaining(p.value, t)
                           IN  /\ Return(OkResult(CurrentDomain, p.value,
                                                  days_remaining,
                                                  VerifiedStatus(days_remaining)))
                               /\ log' = log
    /\ UNCHANGED <<github_output, config, domains, alerts, alert_data,
                   sink, ret, call>>

\* lines 110-116, 180-187: the relaxed handshake
RelaxedHandshake ==
    /\ pc = "relaxed"
    /\ \/ /\ Continue("unverified")
          /\ log' = AppendOp(log, Op("relaxed", None))
       \/ \E e \in RelaxedFailures :
             /\ Return(ErrorResult(CurrentDomain, Str(e)))
             /\ log' = AppendOp(log, Op("relaxed", Some(e)))
    /\ UNCHANGED <<github_output, config, domains, alerts, alert_data,
                   sink, ret, call>>

RawCerts == {<< >>, <<"der">>}

\* faulty variant: the test of line 121 is lost
HaveCertAlways(cert_der) == TRUE

\* line 121: `if not cert_der` does not hold
HaveCert(cert_der) == Truthy(cert_der)

\* lines 119-131: the raw certificate of the unverified session
ReadRawCert ==
    /\ pc = "unverified"
    /\ \E cert_der \in RawCerts :
          /\ log' = AppendOp(log, Op(IF cert_der = << >> THEN "empty_cert"
                                     ELSE "raw_cert", None))
          /\ IF ~HaveCert(cert_der)
             THEN Return(ErrorResult(CurrentDomain,
                                     <<"Could not retrieve certificate">>))
             ELSE Continue("decoder")
    /\ UNCHANGED <<github_output, config, domains, alerts,
                   alert_data, sink, ret, call>>

\* the handler of lines 172-179
ParsingError(e) ==
    ErrorResult(CurrentDomain, <<"Certificate parsing error:">> \o Str(e))

DecoderReturnCodes == {0, 1}

\* faulty variant: the return code is not looked at
ZeroExitAlways(returncode) == TRUE

\* line 142
ZeroExit(returncode) == returncode = 0

\* lines 144-146: the end date of the decoder's output
DecodeStdout(stdout) ==
    LET parts == Split(stdout, EqSign)
    IN  IF Len(parts) < 2
        THEN [raises |-> TRUE,
              value |-> Exc("IndexError", <<"list index out of range">>)]
        ELSE strptime(PartText(parts[2]), DecoderFormatPad)

\* lines 133-179: the external decoder
RunDecoder ==
    /\ pc = "decoder"
    /\ \/ \E e \in DecoderFailures :
             /\ Return(ParsingError(e))
             /\ log' = AppendOp(log, Op("decoder", Some(e)))
       \/ \E returncode \in DecoderReturnCodes, stdout \in DecoderStdouts,
             stderr \in DecoderStderrs :
             LET ran == AppendOp(AppendOp(log, Op("decoder", None)),
                                 Op(IF returncode = 0 THEN "exit_zero"
                                    ELSE "exit_nonzero", None))
             IN  IF ZeroExit(returncode)
                 THEN LET p == DecodeStdout(stdout)
                      IN  IF p.raises
                          THEN /\ Return(ParsingError(p.value))
                               /\ log' = AppendOp(ran, Op("parse", Some(p.value)))
                          ELSE \E t \in 0..MaxNow :
                                  LET days_remaining == DaysRemaining(p.value, t)
                                  IN  /\ Return(OkResult(CurrentDomain, p.value,
                                                         days_remaining,
                                                         DecodedStatus(days_remaining)))
                                      /\ log' = AppendOp(ran, Op("parse", None))
                 ELSE /\ Return(ErrorResult(CurrentDomain,
                                            <<"OpenSSL parsing failed:">> \o stderr))
                      /\ log' = ran
    /\ UNCHANGED <<github_output, config, domains, alerts, alert_data, sink,
                   ret, call>>

\* faulty variant: the batch is built whatever the filter found
NoAlertsNever(found) == FALSE

\* line 312: `if not alerts`
NoAlerts(found) == ~Truthy(found)

\* lines 310-325
Aggregate ==
    /\ pc = "loop"
    /\ ~Checking
    /\ LET found == AlertingResults(results, Get(config).threshold_days)
       IN  /\ alerts' = Some(found)
           /\ IF NoAlerts(found)
              THEN /\ ret' = Some(0)
                   /\ pc' = "done"
                   /\ UNCHANGED alert_data
              ELSE \E t \in 0..MaxNow :
                      /\ alert_data' =
                             Some([alerts |-> found,
                                   threshold_days |-> Get(config).threshold_days,
                                   checked_at |-> IsoFormat(t)])
                      /\ pc' = "emit"
                      /\ ret' = ret
    /\ UNCHANGED <<github_output, config, domains, results, log, sink, raised,
                   call>>

\* the line written to the output file (line 341)
OutputLine(as) == [key |-> "alerts", value |-> AlertsJson(as)]

\* lines 328-344
EmitAlerts ==
    /\ pc = "emit"
    /\ \E path \in GithubOutputVals :
          /\ github_output' = Some(path)
          /\ IF ~IsNone(path) /\ Truthy(Get(path)) /\ Truthy(Get(alerts))
             THEN \E opened \in OpenOutcomes(Get(path)) :
                     IF IsNone(opened)
                     THEN /\ sink' = Append(sink, OutputLine(Get(alerts)))
                          /\ ret' = Some(IF Truthy(Get(alerts)) THEN 1 ELSE 0)
                          /\ pc' = "done"
                          /\ raised' = raised
                     ELSE /\ sink' = sink
                          /\ ret' = ret
                          /\ pc' = "crashed"
                          /\ raised' = opened
             ELSE /\ sink' = sink
                  /\ ret' = Some(IF Truthy(Get(alerts)) THEN 1 ELSE 0)
                  /\ pc' = "done"
                  /\ raised' = raised
    /\ UNCHANGED <<config, domains, results, log, alerts, alert_data, call>>

Next ==
    \/ LoadConfig
    \/ ValidateConfig
    \/ ParseDomains
    \/ StrictHandshake
    \/ ExtractVerified
    \/ RelaxedHandshake
    \/ ReadRawCert
    \/ RunDecoder
    \/ Aggregate
    \/ EmitAlerts

Spec == Init /\ [][Next]_vars

\* The runs started with `-t 7`.  main() is one sequential thread: while a
\* step is possible, one is taken (every handshake and decoder call returns,
\* raises or times out).
NextFair ==
    \/ LoadConfigThreshold7
    \/ ValidateConfig
    \/ ParseDomains
    \/ StrictHandshake
    \/ ExtractVerified
    \/ RelaxedHandshake
    \/ ReadRawCert
    \/ RunDecoder
    \/ Aggregate
    \/ EmitAlerts

SpecFair == Init /\ [][NextFair]_vars /\ WF_vars(NextFair)

----------------------------------------------------------------------------
(* The items of a domain specification, described by position: an item    *)
(* starts after position p, where p is 0 or the index of a comma, and     *)
(* runs up to the next comma or the end of the string.                    *)

ItemStarts(s) == {0} \cup {i \in 1..Len(s) : s[i] = ","}

ItemEnd(s, p) ==
    LET stops == {q \in (p + 1)..(Len(s) + 1) : q = Len(s) + 1 \/ s[q] = ","}
    IN  CHOOSE q \in stops : \A r \in stops : q <= r

ItemAt(s, p) == SubSeq(s, p + 1, ItemEnd(s, p) - 1)

NonBlank(x) == \E i \in 1..Len(x) : x[i] \notin Whitespace

Trimmed(x) ==
    LET idx == {i \in 1..Len(x) : x[i] \notin Whitespace}
    IN  IF idx = {} THEN << >>
        ELSE SubSeq(x, CHOOSE i \in idx : \A j \in idx : i <= j,
                       CHOOSE i \in idx : \A j \in idx : i >= j)

KeptStarts(s) == {p \in ItemStarts(s) : NonBlank(ItemAt(s, p))}

\* the j-th non-blank item of s, in input order
KeptItem(s, j) ==
    ItemAt(s, CHOOSE p \in KeptStarts(s) :
                 Cardinality({q \in KeptStarts(s) : q < p}) = j - 1)

ParseReturned == call.fn = "parse_domains" /\ ~IsNone(call.ret)

PyNone == [type |-> "NoneType", val |-> << >>]

\* C8: parse_domains returns one (hostname, remediationURL) pair per entry:
\* a bare hostname gives (hostname, None); `hostname:url` is split at the
\* first colon only and both parts are trimmed.
C8_ParseReturnsPairs ==
    ParseReturned =>
        LET s == call.args[1]
            out == Get(call.ret).val
        IN  \A j \in 1..Len(out) :
               LET item == KeptItem(s, j)
                   colon == FindFrom(item, ":", 1)
                   e == out[j]
               IN  /\ e.type = "tuple"
                   /\ Len(e.val) = 2
                   /\ IF colon = 0
                      THEN /\ e.val[1] = PyStr(Trimmed(item))
                           /\ e.val[2] = PyNone
                      ELSE /\ e.val[1] = PyStr(Trimmed(SubSeq(item, 1, colon - 1)))
                           /\ e.val[2] = PyStr(Trimmed(SubSeq(item, colon + 1,
                                                              Len(item))))

\* C9: parse_domains returns exactly one entry for each comma-separated item
\* that is non-blank after trimming, in input order; blank items are dropped
\* and the empty string gives the empty list.
C9_ParseKeepsNonBlankItems ==
    ParseReturned =>
        LET s == call.args[1]
            out == Get(call.ret).val
        IN  /\ Len(out) = Cardinality(KeptStarts(s))
            /\ \A j \in 1..Len(out) :
                  /\ out[j].type = "str"
                  /\ out[j].val = Trimmed(KeptItem(s, j))
            /\ (s = << >> => out = << >>)

\* a blank item was dropped between two kept ones
C9_Witness ==
    /\ ParseReturned
    /\ Len(Get(call.ret).val) >= 2
    /\ Cardinality(ItemStarts(call.args[1])) > Len(Get(call.ret).val)

----------------------------------------------------------------------------
(* Specification of single calls of check_threshold *)

Statuses == {"OK", "CRITICAL", "EXPIRED", "ERROR"}

CertInfos ==
    [status : Statuses,
     days_remaining : {None} \cup {Some(d) : d \in (-MaxDays)..MaxDays},
     error : {None}]

InitThreshold ==
    /\ MainIdle
    /\ \E cert_info \in CertInfos, threshold_days \in 0..MaxDays :
          call = [fn |-> "check_threshold",
                  args |-> <<cert_info, threshold_days>>, ret |-> None]

CallCheckThreshold ==
    /\ call.fn = "check_threshold"
    /\ IsNone(call.ret)
    /\ call' = [call EXCEPT !.ret = Some(check_threshold(call.args[1], call.args[2]))]
    /\ UNCHANGED mainVars

NextThreshold == CallCheckThreshold

SpecThreshold == InitThreshold /\ [][NextThreshold]_vars

ThresholdReturned == call.fn = "check_threshold" /\ ~IsNone(call.ret)

\* C5: check_threshold(r, thresholdDays) is true iff r.status is ERROR, or
\* r.days_remaining is absent, or r.days_remaining < thresholdDays; the
\* comparison is strict, and an ERROR result alerts whatever its
\* days_remaining is.
C5_AlertPredicate ==
    ThresholdReturned =>
        LET r == call.args[1]
            thresholdDays == call.args[2]
            answer == Get(call.ret)
        IN  /\ answer = TRUE <=> \/ r.status = "ERROR"
                                 \/ r.days_remaining = None
                                 \/ r.days_remaining[1] < thresholdDays
            /\ (r.status # "ERROR" /\ r.days_remaining = Some(thresholdDays)
                    => answer = FALSE)
            /\ (r.status = "ERROR" => answer = TRUE)

\* the boundary of the documentation: OK, 30 days left, threshold 30
C5_Witness ==
    /\ ThresholdReturned
    /\ call.args[1].status = "OK"
    /\ call.args[1].days_remaining = Some(30)
    /\ call.args[2] = 30
    /\ Get(call.ret) = FALSE

----------------------------------------------------------------------------
(* Properties of a run of main() *)

Finished(i) == i <= Len(results)

HasOp(ops, op) == \E k \in 1..Len(ops) : ops[k].op = op

StrictExc(i) == log[i][1].exc

\* the strict handshake of domain i failed with a verification failure
VerificationFailed(i) ==
    /\ StrictExc(i) # None
    /\ StrictExc(i)[1].cls = "SSLCertVerificationError"

\* the strict handshake of domain i failed otherwise
OtherwiseFailed(i) ==
    /\ StrictExc(i) # None
    /\ StrictExc(i)[1].cls # "SSLCertVerificationError"

\* C1: for every domain, the relaxed handshake is attempted iff the strict
\* handshake failed with a verification-specific failure; every other
\* strict-tier failure ends directly in an ERROR result carrying the
\* underlying message, with no relaxed handshake attempted.
C1_FallbackOnlyOnVerificationFailure ==
    \A i \in 1..Len(log) :
        /\ (HasOp(log[i], "relaxed") \/ (~Finished(i) /\ pc = "relaxed"))
               <=> VerificationFailed(i)
        /\ OtherwiseFailed(i) =>
               /\ Finished(i)
               /\ Len(log[i]) = 1
               /\ results[i].status = "ERROR"
               /\ results[i].error = Some(StrictExc(i)[1].msg)

\* one domain went through the fallback, another ended on a connection error
C1_Witness ==
    /\ pc = "done"
    /\ Len(results) = 2
    /\ VerificationFailed(1) /\ HasOp(log[1], "relaxed")
    /\ OtherwiseFailed(2) /\ StrictExc(2)[1].cls = "gaierror"

\* C2: every domain yields exactly one result: get_certificate_expiry
\* returns a result instead of raising whatever the handshake, extraction
\* and decoder outcomes are, so no failure interrupts the batch, and after
\* the loop the result list has one entry per domain, in domain order.
C2_OneResultPerDomain ==
    /\ Len(results) <= Len(domains)
    /\ \A i \in 1..Len(results) : results[i].domain = domains[i]
    /\ Len(log) = Len(results)
                    + (IF pc \in {"verified", "relaxed", "unverified", "decoder"}
                       THEN 1 ELSE 0)
    /\ ((raised # None /\ alerts = None) => log = << >>)
    /\ (alerts # None => Len(results) = Len(domains))

\* a connection timeout and a decoder timeout, and the batch went on
C2_Witness ==
    /\ pc = "done"
    /\ Len(domains) = 2
    /\ Len(results) = 2
    /\ StrictExc(1) # None /\ StrictExc(1)[1].cls = "timeout"
    /\ \E k \in 1..Len(log[2]) :
          /\ log[2][k].op = "decoder"
          /\ log[2][k].exc # None
          /\ log[2][k].exc[1].cls = "TimeoutExpired"

\* C3: every result satisfies status = ERROR iff expires_at is None iff
\* days_remaining is None, and error is populated iff status = ERROR.
C3_ResultShape ==
    \A i \in 1..Len(results) :
        LET r == results[i]
        IN  /\ (r.status = "ERROR") <=> (r.expires_at = None)
            /\ (r.expires_at = None) <=> (r.days_remaining = None)
            /\ (r.error # None) <=> (r.status = "ERROR")

\* an ERROR result and a successful one side by side
C3_Witness ==
    /\ Len(results) = 2
    /\ results[1].status = "ERROR"
    /\ results[2].status = "CRITICAL"

\* C4: for every non-error result, from the verified session or from the
\* decoder, status is EXPIRED if days_remaining < 0, CRITICAL if
\* 0 <= days_remaining < 7 and OK otherwise, whatever the alert threshold.
C4_StatusFromDays ==
    \A i \in 1..Len(results) :
        LET r == results[i]
        IN  r.status # "ERROR" =>
                LET d == r.days_remaining[1]
                IN  /\ d < 0 => r.status = "EXPIRED"
                    /\ (0 <= d /\ d < 7) => r.status = "CRITICAL"
                    /\ d >= 7 => r.status = "OK"

\* 6 days left from the verified session, 7 days left from the decoder
C4_Witness ==
    /\ Len(results) = 2
    /\ Len(log[1]) = 1
    /\ results[1].days_remaining = Some(6) /\ results[1].status = "CRITICAL"
    /\ HasOp(log[2], "decoder")
    /\ results[2].days_remaining = Some(7) /\ results[2].status = "OK"

\* the alert predicate, as the documentation states it
Alerting(r, thresholdDays) ==
    \/ r.status = "ERROR"
    \/ r.days_remaining = None
    \/ r.days_remaining[1] < thresholdDays

\* the strictly increasing maps from 1..n into 1..m
Embeddings(n, m) ==
    {f \in [1..n -> 1..m] : \A j, k \in 1..n : j < k => f[j] < f[k]}

\* C6: the alert batch is exactly the subsequence of the results that
\* satisfy the alert predicate: every alerting result once, no other
\* result, in the order of the domain list; the output array has one
\* object per alerting result in the same order.
C6_BatchIsAlertingSubsequence ==
    alerts # None =>
        LET batch == alerts[1]
            thresholdDays == config[1].threshold_days
        IN  /\ \E f \in Embeddings(Len(batch), Len(results)) :
                  /\ \A k \in 1..Len(batch) : batch[k] = results[f[k]]
                  /\ {f[k] : k \in 1..Len(batch)}
                        = {i \in 1..Len(results) : Alerting(results[i], thresholdDays)}
            /\ alert_data # None => alert_data[1].alerts = batch
            /\ \A n \in 1..Len(sink) :
                  /\ Len(sink[n].value) = Len(batch)
                  /\ \A k \in 1..Len(batch) :
                        /\ sink[n].value[k].domain = batch[k].domain
                        /\ sink[n].value[k].status = batch[k].status
                        /\ sink[n].value[k].days_remaining = batch[k].days_remaining
                        /\ sink[n].value[k].error = batch[k].error
                        /\ sink[n].value[k].expires_at =
                              (IF batch[k].expires_at = None THEN None
                               ELSE Some([iso |-> batch[k].expires_at[1]]))

\* two domains, only the second alerts, and the line was written
C6_Witness ==
    /\ pc = "done"
    /\ Len(results) = 2
    /\ alerts # None /\ Len(alerts[1]) = 1
    /\ alerts[1][1].domain = domains[2]
    /\ results[1].domain # results[2].domain
    /\ Len(sink) = 1

\* both domains alert
C6_WitnessBoth ==
    /\ pc = "done"
    /\ alerts # None /\ Len(alerts[1]) = 2
    /\ alerts[1][1].domain # alerts[1][2].domain
    /\ Len(sink) = 1

SinkDesignated == github_output # None /\ github_output[1] # None
                    /\ github_output[1][1] # << >>

\* C7: a run that passes validation does not crash and ends in one of two
\* outcomes: no result alerts, it returns 0, no batch is built and nothing
\* is written; or some result alerts, the batch is built, it returns 1 and one alerts line is
\* written when an output sink is designated.  An empty batch is never
\* built or written.
C7_TwoOutcomes ==
    /\ ((config # None /\ Truthy(config[1].domains_str)) => pc # "crashed")
    /\ (alert_data # None => alert_data[1].alerts # << >>)
    /\ \A n \in 1..Len(sink) : sink[n].key = "alerts" /\ sink[n].value # << >>
    /\ (pc \in {"parse", "loop", "verified", "relaxed", "unverified",
                "decoder", "emit", "done"} => raised = None)
    /\ pc = "done" =>
          LET thresholdDays == config[1].threshold_days
              some == \E i \in 1..Len(results) : Alerting(results[i], thresholdDays)
          IN  IF some
              THEN /\ ret = Some(1)
                   /\ alert_data # None
                   /\ Len(sink) = (IF SinkDesignated THEN 1 ELSE 0)
              ELSE /\ ret = Some(0)
                   /\ alert_data = None
                   /\ sink = << >>

\* a checked domain, nothing to report: all healthy
C7_Witness ==
    /\ pc = "done"
    /\ Len(results) >= 1
    /\ ret = Some(0)
    /\ alert_data = None

\* alerts raised and written
C7_WitnessAlerts ==
    /\ pc = "done"
    /\ ret = Some(1)
    /\ SinkDesignated
    /\ Len(sink) = 1

\* C10: when the domain specification is missing or empty, validate_config
\* raises an error naming MONITOR_DOMAINS and the run aborts before any
\* domain is parsed or checked: no handshake, no decoder invocation, no
\* alert output.  A non-empty specification passes validation.
C10_EmptySpecificationIsFatal ==
    config # None =>
        IF config[1].domains_str = << >>
        THEN /\ pc \in {"validate", "crashed"}
             /\ pc = "crashed" =>
                   /\ raised # None
                   /\ raised[1].cls = "RuntimeError"
                   /\ Contains(raised[1].msg, "MONITOR_DOMAINS")
             /\ domains = << >> /\ log = << >> /\ results = << >>
             /\ alerts = None /\ sink = << >> /\ ret = None
        ELSE /\ pc # "validate" => raised = None \/ raised[1].cls # "RuntimeError"
             /\ pc = "crashed" => alerts # None

\* the run was aborted by validate_config
C10_Witness ==
    /\ pc = "crashed"
    /\ config # None
    /\ raised # None /\ raised[1].cls = "RuntimeError"

----------------------------------------------------------------------------
InCheck == pc \in {"verified", "relaxed", "unverified", "decoder"}

\* C11: the Aggregator step runs once per run and never starts before every
\* per-domain check has terminated with its result; and every run that
\* passes validation eventually reaches the Aggregator.
C11_AggregatorAfterJoin ==
    /\ [](alerts # None =>
             /\ Len(results) = Len(domains)
             /\ Len(log) = Len(domains)
             /\ ~InCheck)
    /\ [][alerts # None => alerts' = alerts /\ results' = results]_vars
    /\ [][alerts = None /\ alerts' # None =>
             pc = "loop" /\ Len(results) = Len(domains)]_vars
    /\ (pc = "parse" ~> alerts # None)

\* the Aggregator has run after two checks
C11_Witness ==
    /\ alerts # None
    /\ Len(domains) = 2
    /\ Len(results) = 2
    /\ HasOp(log[1], "decoder")

----------------------------------------------------------------------------
(* Specification of single calls of load_config *)

ConfigArgDomains == {None} \cup {Some(s) : s \in StrsUpTo({"a", ","}, 2)}

ConfigArgThresholds == {None, Some(0), Some(1), Some(45)}

ConfigEnvirons ==
    [MONITOR_DOMAINS : {None, Some(<< >>), Some(<<"b">>)},
     CERT_EXPIRATION_THRESHOLD_DAYS :
         {None, Some(<<"7">>), Some(<<"x">>), Some(<<" ", "7", " ">>),
          Some(<<"-", "7">>), Some(<<"1", "_", "0">>), Some(<<"_", "7">>),
          Some(<<VerticalTab, "7", "\n">>)}
             \cup {Some(<<c, "7">>) : c \in Separators},
     DEBUG : {None, Some(<<"T", "R", "U", "E">>), Some(<<"t", "R", "u", "E">>),
              Some(<<"y", "e", "s">>)}]

ConfigDotenvs ==
    [MONITOR_DOMAINS : {None, Some(<<"a">>)},
     CERT_EXPIRATION_THRESHOLD_DAYS : {None, Some(<<"1">>)},
     DEBUG : {None}]

InitConfig ==
    /\ MainIdle
    /\ \E argDomains \in ConfigArgDomains, argThreshold \in ConfigArgThresholds,
          osEnviron \in ConfigEnvirons, dotenvFile \in ConfigDotenvs :
          call = [fn |-> "load_config",
                  args |-> <<argDomains, argThreshold, osEnviron, dotenvFile>>,
                  ret |-> None]

CallLoadConfig ==
    /\ call.fn = "load_config"
    /\ IsNone(call.ret)
    /\ call' = [call EXCEPT !.ret =
                   Some(load_config(call.args[1], call.args[2], call.args[3],
                                    call.args[4]))]
    /\ UNCHANGED mainVars

NextConfig == CallLoadConfig

SpecConfig == InitConfig /\ [][NextConfig]_vars

\* load_config returned a dict
ConfigReturned ==
    call.fn = "load_config" /\ ~IsNone(call.ret) /\ ~call.ret[1].raises

\* C12: load_config gives command-line arguments the highest priority:
\* whenever a domains or threshold argument is supplied, the returned
\* domains_str / threshold_days is that argument's value, whatever the
\* environment and the .env file hold; with no threshold argument and no
\* environment value, threshold_days is 30.
C12_ArgumentsHavePriority ==
    ConfigReturned =>
        LET argDomains == call.args[1]
            argThreshold == call.args[2]
            osEnviron == call.args[3]
            dotenvFile == call.args[4]
            returned == call.ret[1].value
        IN  /\ argDomains # None => returned.domains_str = argDomains[1]
            /\ argThreshold # None => returned.threshold_days = argThreshold[1]
            /\ (/\ argThreshold = None
                /\ osEnviron["CERT_EXPIRATION_THRESHOLD_DAYS"] = None
                /\ dotenvFile["CERT_EXPIRATION_THRESHOLD_DAYS"] = None)
                   => returned.threshold_days = 30

----------------------------------------------------------------------------
CountOp(ops, op) == Cardinality({k \in 1..Len(ops) : ops[k].op = op})

\* C13: nothing is retried beyond the two tiers: in one domain's check
\* there is at most one strict handshake, at most one relaxed handshake
\* (after the strict one) and at most one decoder invocation; the decoder
\* is invoked only after a successful relaxed handshake that returned
\* non-empty raw certificate bytes, never on the verified path.
C13_NoRetries ==
    \A i \in 1..Len(log) :
        LET ops == log[i]
        IN  /\ ops[1].op = "strict"
            /\ CountOp(ops, "strict") = 1
            /\ CountOp(ops, "relaxed") <= 1
            /\ CountOp(ops, "decoder") <= 1
            /\ \A k \in 1..Len(ops) :
                  /\ ops[k].op = "relaxed" => k = 2 /\ ops[1].exc # None
                  /\ ops[k].op = "decoder" =>
                        /\ k = 4
                        /\ ops[1].exc # None
                        /\ ops[2].op = "relaxed" /\ ops[2].exc = None
                        /\ ops[3].op = "raw_cert"

\* a check that went through both tiers and the decoder
C13_Witness ==
    /\ pc = "done"
    /\ Len(log) = 2
    /\ HasOp(log[1], "decoder")
    /\ HasOp(log[2], "empty_cert")

UnverifiedError(i, text) ==
    results[i].status = "ERROR" /\ results[i].error = Some(text)

\* C14: from the unverified session the check ends in an ERROR result when
\* the raw certificate is absent (decoder not invoked), when the decoder
\* returns non-zero (the error carries its diagnostic text), when invoking
\* the decoder or parsing its output raises (wrapped message, the timeout
\* included) and when the relaxed handshake fails; a non-error result is
\* produced only when the decoder returned zero and its end date parsed.
C14_UnverifiedOutcomes ==
    \A i \in 1..Len(results) :
        VerificationFailed(i) =>
            LET ops == log[i]
            IN  /\ \A k \in 1..Len(ops) :
                      /\ (ops[k].op = "relaxed" /\ ops[k].exc # None) =>
                            UnverifiedError(i, ops[k].exc[1].msg)
                      /\ ops[k].op = "empty_cert" =>
                            /\ UnverifiedError(i, <<"Could not retrieve certificate">>)
                            /\ ~HasOp(ops, "decoder")
                      /\ ops[k].op = "exit_nonzero" =>
                            \E stderr \in DecoderStderrs :
                               UnverifiedError(i, <<"OpenSSL parsing failed:">> \o stderr)
                      /\ (ops[k].op \in {"decoder", "parse"} /\ ops[k].exc # None) =>
                            UnverifiedError(i, <<"Certificate parsing error:">>
                                                   \o ops[k].exc[1].msg)
                /\ results[i].status # "ERROR" =>
                      /\ HasOp(ops, "exit_zero")
                      /\ ops[Len(ops)] = Op("parse", None)

\* a decoder failure and a decoded certificate
C14_Witness ==
    /\ Len(results) = 2
    /\ HasOp(log[1], "exit_nonzero") /\ results[1].status = "ERROR"
    /\ HasOp(log[2], "exit_zero") /\ results[2].status = "OK"

\* C15: from the verified session, a certificate without expiration field
\* or with an unparsable expiration text yields an ERROR result; such a
\* failure never triggers the relaxed handshake or the decoder.
C15_VerifiedDecodeFailure ==
    \A i \in 1..Len(log) :
        StrictExc(i) = None =>
            LET ops == log[i]
            IN  /\ \A k \in 2..Len(ops) : ops[k].op = "extract" /\ ops[k].exc # None
                /\ Len(ops) <= 2
                /\ ~Finished(i) => pc = "verified" /\ Len(ops) = 1
                /\ (Finished(i) /\ Len(ops) = 2) =>
                      /\ results[i].status = "ERROR"
                      /\ results[i].error = Some(ops[2].exc[1].msg)
                /\ (Finished(i) /\ Len(ops) = 1) => results[i].status # "ERROR"

\* a certificate without notAfter, and one whose notAfter does not parse
C15_Witness ==
    /\ Len(results) = 2
    /\ StrictExc(1) = None /\ StrictExc(2) = None
    /\ results[1].error = Some(<<"Certificate missing notAfter field">>)
    /\ results[2].error = Some(<<"time data", "does not match format">>)

\* a non-empty text of commas and whitespace only
BlankOnly(s) ==
    /\ s # << >>
    /\ \A k \in 1..Len(s) : s[k] \in Whitespace \cup {","}

\* C17: a domain specification that is non-empty but holds no non-blank
\* entry passes validate_config, parses to an empty list of domains, has no
\* certificate checked, and the run ends with the all-healthy outcome
\* (returns 0), not with a configuration error.
C17_BlankSpecificationIsHealthy ==
    (config # None /\ BlankOnly(config[1].domains_str)) =>
        /\ pc \in {"validate", "parse", "loop", "done"}
        /\ raised = None
        /\ domains = << >> /\ log = << >> /\ results = << >>
        /\ alerts \in {None, Some(<< >>)}
        /\ alert_data = None /\ sink = << >>
        /\ pc = "done" => ret = Some(0) /\ alerts = Some(<< >>)
        /\ pc # "done" => ret = None

\* the run of `-d " , "` has ended
C17_Witness ==
    /\ pc = "done"
    /\ config[1].domains_str = BlankSpec
    /\ ret = Some(0)

InBatch(r) == \E k \in 1..Len(alerts[1]) : alerts[1][k] = r

\* C18: with a threshold of at least 1 every EXPIRED or ERROR result is in
\* the alert batch, and with a threshold of at least 7 every CRITICAL result
\* is in it as well, so that only OK results can be left out.
C18_SevereResultsAlert ==
    alerts # None =>
        LET thresholdDays == config[1].threshold_days
        IN  \A i \in 1..Len(results) :
               /\ (thresholdDays >= 1 /\ results[i].status \in {"EXPIRED", "ERROR"})
                     => InBatch(results[i])
               /\ (thresholdDays >= 7 /\ results[i].status = "CRITICAL")
                     => InBatch(results[i])
               /\ (thresholdDays >= 7 /\ ~InBatch(results[i]))
                     => results[i].status = "OK"

\* threshold 7: a CRITICAL result in the batch, an OK result left out
C18_Witness ==
    /\ alerts # None
    /\ config[1].threshold_days = 7
    /\ Len(results) = 2
    /\ results[1].status = "CRITICAL" /\ results[2].status = "OK"
    /\ alerts[1] = <<results[1]>>

====
